---- MODULE Spec2Model ----
(***************************************************************************)
(* EarlyAllocator<PAGE_SIZE> of arceos/modules/bump_allocator/src/lib.rs.  *)
(*                                                                         *)
(*   [ bytes-used | avail-area | pages-used ]                              *)
(*   start       b_pos        p_pos       end                              *)
(*                                                                         *)
(* Addresses are machine words (usize).  The word is scaled down to        *)
(* WordBits bits; every arithmetic step of the source is modelled with     *)
(* that width.  Rust traps an overflowing +, - or * when the crate is      *)
(* built with debug assertions and wraps it otherwise, so the build        *)
(* profile is part of the state and both behaviours are explored.          *)
(***************************************************************************)
EXTENDS Integers, Sequences, FiniteSets

\* ------------------------------------------------------------------ word

\* Width of usize in the model.
WordBits == 16

\* The page size the allocator is instantiated with (const generic).
PAGE_SIZE == 4096

\* Cap on the number of byte allocations carved out of the byte arena between
\* two resets of the byte cursor.
MaxCarved == 5

\* Cap on the number of page allocations made after one init.
MaxPages == 2

RECURSIVE Pow2(_)
Pow2(n) == IF n = 0 THEN 1 ELSE 2 * Pow2(n - 1)

Word == Pow2(WordBits)

usize_MAX == Word - 1

\* a + b, a - b, a * b as the hardware computes them, and whether the exact
\* result leaves the word (the condition under which a checked build panics).
wrapping_add(a, b) == (a + b) % Word

wrapping_sub(a, b) == (a - b + Word) % Word

wrapping_mul(a, b) == (a * b) % Word

add_overflows(a, b) == a + b > usize_MAX

sub_overflows(a, b) == a < b

mul_overflows(a, b) == a * b > usize_MAX

\* Bitwise AND of two words, bit by bit.
RECURSIVE BitAndN(_, _, _)
BitAndN(a, b, n) ==
    IF n = 0 THEN 0
    ELSE (IF a % 2 = 1 /\ b % 2 = 1 THEN 1 ELSE 0)
         + 2 * BitAndN(a \div 2, b \div 2, n - 1)

BitAnd(a, b) == BitAndN(a, b, WordBits)

\* Bitwise complement of a word (the ! operator on usize).
BitNot(a) == usize_MAX - a

RECURSIVE count_ones(_)
count_ones(x) == IF x = 0 THEN 0 ELSE (x % 2) + count_ones(x \div 2)

\* The test x & (x - 1) == 0, which also accepts 0.
is_power_of_two_or_zero(x) == x = 0 \/ BitAnd(x, x - 1) = 0

\* usize::is_power_of_two: exactly one bit set (0 is not a power of two).
is_power_of_two(x) == count_ones(x) = 1

\* checked_add: the sum, or None when it does not fit the word.
None == -1

checked_add(a, b) == IF add_overflows(a, b) THEN None ELSE a + b

\* ----------------------------------------------------------------- state

VARIABLES
    start,             \* self.start
    end,               \* self.end
    b_pos,             \* self.b_pos
    p_pos,             \* self.p_pos
    count,             \* self.count
    debug_assertions,  \* the build traps overflow (TRUE) or wraps (FALSE)
    panicked,          \* a panic has stopped the program
    carved,            \* byte allocations made since b_pos was last reset
    paged,             \* page allocations made since the last init
    region,            \* the arguments <<start, size>> of the last init, if any
    last,              \* the last call: operation, arguments, pre-state, result
    granted,           \* byte ranges returned since the last init or dealloc
    pages,             \* page ranges returned since the last init
    run                \* the alloc-then-dealloc run in progress, if any

fields == <<start, end, b_pos, p_pos, count>>

hist == <<granted, pages, run>>

vars == <<start, end, b_pos, p_pos, count, debug_assertions, panicked, carved,
          paged, region, last, granted, pages, run>>

\* The five fields as one value.
Snapshot == [start |-> start, end |-> end, b_pos |-> b_pos, p_pos |-> p_pos,
             count |-> count]

\* ---------------------------------------------------------------- queries

total_bytes == wrapping_sub(p_pos, start)

used_bytes == wrapping_sub(b_pos, start)

available_bytes == wrapping_sub(p_pos, b_pos)

total_pages == wrapping_sub(end, b_pos) \div PAGE_SIZE

used_pages == wrapping_sub(end, p_pos) \div PAGE_SIZE

available_pages == wrapping_sub(total_pages, used_pages)

\* ----------------------------------------------------------------- inputs

\* The largest size a Layout with page alignment may carry: isize::MAX + 1
\* less one page.
BigSize == (Word \div 2) - PAGE_SIZE

\* init arguments <<start, size>>: the bottom of the address space, the last
\* two pages of the address space less one byte, and a region that runs past
\* the end of the address space.
Regions == {<<0, 2 * PAGE_SIZE>>,
            <<Word - 2 * PAGE_SIZE, 2 * PAGE_SIZE - 1>>,
            <<Word - 2 * PAGE_SIZE, 2 * PAGE_SIZE>>}

\* alloc arguments <<size, align>>: a zero size, an alignment that is no power
\* of two, and three well-formed layouts.
Layouts == {<<0, 8>>, <<100, 3>>, <<100, 8>>, <<PAGE_SIZE, PAGE_SIZE>>,
            <<BigSize, PAGE_SIZE>>}

\* alloc_pages arguments <<num_pages, align_pow2>>: a zero count, alignments
\* that are no power of two, and three well-formed requests.
PageRequests == {<<0, 1>>, <<1, 0>>, <<1, 3>>, <<1, 1>>, <<1, 2>>, <<3, 1>>}

\* Arguments of the calls that do not look at their arguments.
IgnoredArgs == {<<0, PAGE_SIZE>>, <<PAGE_SIZE, 1>>}

\* ------------------------------------------------------------ operations

NoRun == [phase |-> "none", avail0 |-> 0]

Call(op, a, b, res, addr, ovf) ==
    [op |-> op, a |-> a, b |-> b, res |-> res, addr |-> addr, ovf |-> ovf,
     pre |-> Snapshot]

\* new(): every field zero.
Init ==
    /\ start = 0
    /\ end = 0
    /\ b_pos = 0
    /\ p_pos = 0
    /\ count = 0
    /\ debug_assertions \in BOOLEAN
    /\ panicked = FALSE
    /\ carved = 0
    /\ paged = 0
    /\ region = << >>
    /\ last = [op |-> "new", a |-> 0, b |-> 0, res |-> "Ok", addr |-> None,
               ovf |-> FALSE,
               pre |-> [start |-> 0, end |-> 0, b_pos |-> 0, p_pos |-> 0,
                        count |-> 0]]
    /\ granted = << >>
    /\ pages = << >>
    /\ run = NoRun

\* init without line 47: the counter of an earlier use survives.
init_keep_count(s, size, h) ==
    /\ ~panicked
    /\ IF add_overflows(s, size) /\ debug_assertions
       THEN /\ start' = s
            /\ panicked' = TRUE
            /\ last' = Call("init", s, size, "Panic", None, TRUE)
            /\ run' = NoRun
            /\ UNCHANGED <<end, b_pos, p_pos, count, carved, paged, region,
                           granted, pages>>
       ELSE /\ start' = s
            /\ end' = wrapping_add(s, size)
            /\ b_pos' = s
            /\ p_pos' = wrapping_add(s, size)
            /\ count' = count
            /\ carved' = 0
            /\ paged' = 0
            /\ region' = <<s, size>>
            /\ last' = Call("init", s, size, "Ok", None, add_overflows(s, size))
            /\ granted' = << >>
            /\ pages' = << >>
            /\ run' = NoRun
            /\ UNCHANGED panicked
    /\ UNCHANGED debug_assertions

\* init(start, size).  self.start is assigned before start + size is
\* computed, so a trapped overflow leaves start already overwritten.
\* h says whether the histories are kept (here and in every operation).
init(s, size, h) ==
    /\ ~panicked
    /\ IF add_overflows(s, size) /\ debug_assertions
       THEN /\ start' = s
            /\ panicked' = TRUE
            /\ last' = Call("init", s, size, "Panic", None, TRUE)
            /\ run' = NoRun
            /\ UNCHANGED <<end, b_pos, p_pos, count, carved, paged, region,
                           granted, pages>>
       ELSE /\ start' = s
            /\ end' = wrapping_add(s, size)
            /\ b_pos' = s
            /\ p_pos' = wrapping_add(s, size)
            /\ count' = 0
            /\ carved' = 0
            /\ paged' = 0
            /\ region' = <<s, size>>
            /\ last' = Call("init", s, size, "Ok", None, add_overflows(s, size))
            /\ granted' = << >>
            /\ pages' = << >>
            /\ run' = NoRun
            /\ UNCHANGED panicked
    /\ UNCHANGED debug_assertions

\* add_memory that takes the new region as an extension of the managed one.
add_memory_extends(s, size, h) ==
    /\ ~panicked
    /\ end' = wrapping_add(end, size)
    /\ p_pos' = wrapping_add(p_pos, size)
    /\ last' = Call("add_memory", s, size, "Ok", None, FALSE)
    /\ run' = NoRun
    /\ UNCHANGED <<start, b_pos, count, debug_assertions, panicked, carved,
                   paged, region, granted, pages>>

\* add_memory(start, size): does nothing and returns Ok(()).
add_memory(s, size, h) ==
    /\ ~panicked
    /\ last' = Call("add_memory", s, size, "Ok", None, FALSE)
    /\ run' = NoRun
    /\ UNCHANGED <<fields, debug_assertions, panicked, carved, paged, region,
                   granted, pages>>

\* Line 63: the parameter check of alloc.
alloc_invalid(size, align) == size = 0 \/ ~is_power_of_two(align)

\* Line 67: (b_pos + (align - 1)) & !(align - 1), in the word.
align_up(pos, align) ==
    BitAnd(wrapping_add(pos, align - 1), BitNot(align - 1))

\* The bound test with >= in place of >.
alloc_fits_below(alloc_end) == ~(alloc_end >= p_pos)

\* Line 70: the allocation must end at or below the page cursor.
alloc_fits(alloc_end) == ~(alloc_end > p_pos)

\* An early return that has already counted the allocation.
alloc_leave_counted(res, ovf) ==
    [res |-> res, addr |-> None, b_pos |-> b_pos, count |-> count + 1,
     ovf |-> ovf]

\* Lines 64, 68 and 71: alloc returns early, before it writes any field.
alloc_leave(res, ovf) ==
    [res |-> res, addr |-> None, b_pos |-> b_pos, count |-> count, ovf |-> ovf]

\* alloc up to the point where the pointer is built: the result, the address,
\* the fields it leaves, and whether a wrapped value was used on the way.
alloc_result(size, align) ==
    IF alloc_invalid(size, align) THEN alloc_leave("InvalidParam", FALSE)
    ELSE
        LET ovf == add_overflows(b_pos, align - 1)
            alloc_start == align_up(b_pos, align)
            alloc_end == checked_add(alloc_start, size)
        IN  IF ovf /\ debug_assertions THEN alloc_leave("Panic", TRUE)
            ELSE IF alloc_end = None THEN alloc_leave("NoMemory", ovf)
            ELSE IF ~alloc_fits(alloc_end) THEN alloc_leave("NoMemory", ovf)
            ELSE IF add_overflows(count, 1) /\ debug_assertions
                 THEN [res |-> "Panic", addr |-> None, b_pos |-> alloc_end,
                       count |-> count, ovf |-> TRUE]
            ELSE [res |-> "Ok", addr |-> alloc_start, b_pos |-> alloc_end,
                  count |-> wrapping_add(count, 1),
                  ovf |-> ovf \/ add_overflows(count, 1)]

\* Line 77: NonNull::new_unchecked(alloc_start).  A null address is undefined
\* behaviour: a build with debug assertions may trap on it, any build may
\* carry the null pointer through.
new_unchecked(addr) ==
    IF addr = 0 /\ debug_assertions THEN {"Ok", "Panic"} ELSE {"Ok"}

\* The run of allocations and deallocations after a successful alloc: a run
\* begins with the first allocation made while count is 0.
run_after_alloc ==
    IF count = 0 THEN [phase |-> "allocs", avail0 |-> available_bytes]
    ELSE IF run.phase = "allocs" THEN run
    ELSE NoRun

\* alloc(layout), with size = layout.size() and align = layout.align().
alloc(size, align, h) ==
    /\ ~panicked
    /\ carved < MaxCarved
    /\ LET r == alloc_result(size, align)
       IN  /\ b_pos' = r.b_pos
           /\ count' = r.count
           /\ IF r.res = "Ok"
              THEN \E res \in new_unchecked(r.addr) :
                    /\ last' = Call("alloc", size, align, res,
                                    IF res = "Ok" THEN r.addr ELSE None, r.ovf)
                    /\ panicked' = (res = "Panic")
                    /\ carved' = carved + 1
                    /\ IF h /\ res = "Ok"
                       THEN /\ granted' = Append(granted,
                                                 [addr |-> r.addr,
                                                  size |-> size,
                                                  align |-> align])
                            /\ run' = run_after_alloc
                       ELSE UNCHANGED <<granted, run>>
              ELSE /\ last' = Call("alloc", size, align, r.res, None, r.ovf)
                   /\ panicked' = (r.res = "Panic")
                   /\ UNCHANGED <<carved, granted, run>>
    /\ UNCHANGED <<start, end, p_pos, debug_assertions, paged, region, pages>>

\* dealloc without the inner test: every counted dealloc resets b_pos.
dealloc_result_eager ==
    IF count > 0
    THEN [count |-> count - 1, b_pos |-> start]
    ELSE [count |-> count, b_pos |-> b_pos]

\* The fields dealloc leaves: b_pos and count.
dealloc_result ==
    IF count > 0
    THEN [count |-> count - 1,
          b_pos |-> IF count - 1 = 0 THEN start ELSE b_pos]
    ELSE [count |-> count, b_pos |-> b_pos]

\* dealloc(pos, layout): the pointer and the layout are not looked at.
dealloc(pos, size, h) ==
    /\ ~panicked
    /\ b_pos' = dealloc_result.b_pos
    /\ count' = dealloc_result.count
    /\ carved' = IF count = 1 THEN 0 ELSE carved
    /\ last' = Call("dealloc", pos, size, "Ok", None, FALSE)
    /\ IF h
       THEN /\ granted' = << >>
            /\ run' = IF run.phase \in {"allocs", "deallocs"} /\ count > 0
                      THEN [run EXCEPT !.phase = "deallocs"]
                      ELSE NoRun
       ELSE UNCHANGED <<granted, run>>
    /\ UNCHANGED <<start, end, p_pos, debug_assertions, panicked, paged, region,
                   pages>>

\* Line 112: the parameter check of alloc_pages.
alloc_pages_invalid(num_pages, align_pow2) ==
    num_pages = 0 \/ ~is_power_of_two(align_pow2)

\* Line 119: (p_pos - alloc_size) & !(align - 1), in the word.
align_down(pos, alloc_size, align) ==
    BitAnd(wrapping_sub(pos, alloc_size), BitNot(wrapping_sub(align, 1)))

\* The bound test with <= in place of <.
pages_fit_above(alloc_start, alloc_size) ==
    LET alloc_end == checked_add(alloc_start, alloc_size)
    IN  ~(\/ alloc_start <= b_pos
          \/ (IF alloc_end = None THEN 0 ELSE alloc_end) > p_pos)

\* Line 121, negated: the run of pages lies between the two cursors.
\* checked_add(..).unwrap_or(0) replaces an overflowing end address by 0.
pages_fit(alloc_start, alloc_size) ==
    LET alloc_end == checked_add(alloc_start, alloc_size)
    IN  ~(\/ alloc_start < b_pos
          \/ (IF alloc_end = None THEN 0 ELSE alloc_end) > p_pos)

\* alloc_pages: the result, the address, the page cursor it leaves, and
\* whether a wrapped value was used on the way.
alloc_pages_result(num_pages, align_pow2) ==
    LET Leave(res, ovf) ==
            [res |-> res, addr |-> None, p_pos |-> p_pos, ovf |-> ovf]
    IN  IF alloc_pages_invalid(num_pages, align_pow2)
        THEN Leave("InvalidParam", FALSE)
        ELSE
        LET align == wrapping_mul(align_pow2, PAGE_SIZE)
            alloc_size == wrapping_mul(num_pages, PAGE_SIZE)
            ovf == \/ mul_overflows(align_pow2, PAGE_SIZE)
                   \/ mul_overflows(num_pages, PAGE_SIZE)
                   \/ sub_overflows(p_pos, alloc_size)
                   \/ sub_overflows(align, 1)
            alloc_start == align_down(p_pos, alloc_size, align)
        IN  IF ovf /\ debug_assertions THEN Leave("Panic", TRUE)
            ELSE IF ~pages_fit(alloc_start, alloc_size)
                 THEN Leave("NoMemory", ovf)
            ELSE [res |-> "Ok", addr |-> alloc_start, p_pos |-> alloc_start,
                  ovf |-> ovf]

\* alloc_pages(num_pages, align_pow2).
alloc_pages(num_pages, align_pow2, h) ==
    /\ ~panicked
    /\ paged < MaxPages
    /\ LET r == alloc_pages_result(num_pages, align_pow2)
       IN  /\ p_pos' = r.p_pos
           /\ last' = Call("alloc_pages", num_pages, align_pow2, r.res, r.addr,
                           r.ovf)
           /\ panicked' = (r.res = "Panic")
           /\ paged' = IF r.res = "Ok" THEN paged + 1 ELSE paged
           /\ pages' = IF h /\ r.res = "Ok"
                       THEN Append(pages, [addr |-> r.addr, num |-> num_pages])
                       ELSE pages
    /\ run' = NoRun
    /\ UNCHANGED <<start, end, b_pos, count, debug_assertions, carved, region,
                   granted>>

\* dealloc_pages(pos, num_pages): does nothing.
dealloc_pages(pos, num_pages, h) ==
    /\ ~panicked
    /\ last' = Call("dealloc_pages", pos, num_pages, "Ok", None, FALSE)
    /\ run' = NoRun
    /\ UNCHANGED <<fields, debug_assertions, panicked, carved, paged, region,
                   granted, pages>>

\* Any call, with (h) or without the histories.
Step(h) ==
    \/ \E r \in Regions : init(r[1], r[2], h)
    \/ \E x \in IgnoredArgs : add_memory(x[1], x[2], h)
    \/ \E l \in Layouts : alloc(l[1], l[2], h)
    \/ \E x \in IgnoredArgs : dealloc(x[1], x[2], h)
    \/ \E q \in PageRequests : alloc_pages(q[1], q[2], h)
    \/ \E x \in IgnoredArgs : dealloc_pages(x[1], x[2], h)

Next == Step(FALSE)

Spec == Init /\ [][Next]_vars

NextHist == Step(TRUE)

SpecHist == Init /\ [][NextHist]_vars

\* ---------------------------------------------------- exact arithmetic

\* The notions the properties are stated with, in unbounded integers.

IsPowerOfTwo(x) == \E k \in 0..(WordBits - 1) : x = Pow2(k)

\* The least multiple of align that is >= pos.
RoundUp(pos, align) == ((pos + align - 1) \div align) * align

\* The greatest multiple of align that is <= pos.
RoundDown(pos, align) == (pos \div align) * align

\* init has run with a region whose end is representable.
Initialized == Len(region) = 2 /\ region[1] + region[2] <= usize_MAX

ErrorKinds == {"InvalidParam", "NoMemory"}

\* ------------------------------------------------------------ properties

\* C1: after init(start, size) with start + size representable, every
\* reachable state satisfies start <= b_pos <= p_pos <= end.
C1_CursorsOrdered ==
    Initialized => start <= b_pos /\ b_pos <= p_pos /\ p_pos <= end

\* C3: after init, a page allocation with valid arguments returns NoMemory whenever the
\* request is larger than p_pos itself or the span p_pos - b_pos is smaller
\* than the span from the aligned start address up to p_pos.
C3_PagesOutOfMemory ==
    LET n == last.a
        a == last.b
        p == last.pre.p_pos
        b == last.pre.b_pos
        size == n * PAGE_SIZE
    IN  (/\ Initialized
         /\ last.op = "alloc_pages"
         /\ n > 0
         /\ IsPowerOfTwo(a)
         /\ \/ size > p
            \/ p - b < p - RoundDown(p - size, a * PAGE_SIZE))
        => last.res = "NoMemory"

\* C9: after init, alloc and alloc_pages always complete with Ok, InvalidParam or
\* NoMemory, and a successful result never rests on a wrapped computation.
C9_NoOverflow ==
    (Initialized /\ last.op \in {"alloc", "alloc_pages"})
        => /\ last.res \in {"Ok", "InvalidParam", "NoMemory"}
           /\ ~(last.res = "Ok" /\ last.ovf)

\* C10: after init, dealloc_pages leaves every field as it was, and no operation other
\* than init raises the page cursor.
C10_PagesNeverReclaimed ==
    Initialized =>
        /\ last.op = "dealloc_pages" => Snapshot = last.pre
        /\ last.op \notin {"new", "init"} => p_pos <= last.pre.p_pos

\* C4, as claimed: alloc_pages(p, 1) with p > 0 succeeds whenever
\* p * PAGE_SIZE <= available_bytes(), and returns a multiple of PAGE_SIZE.
C4_PagesSucceedWhileAvailable ==
    (/\ Initialized
     /\ last.op = "alloc_pages"
     /\ last.a > 0
     /\ last.b = 1
     /\ last.a * PAGE_SIZE <= wrapping_sub(last.pre.p_pos, last.pre.b_pos))
    => last.res = "Ok" /\ last.addr % PAGE_SIZE = 0

\* C4, amended: when p_pos is a multiple of PAGE_SIZE, alloc_pages(p, 1) with
\* p > 0 succeeds whenever b_pos + p * PAGE_SIZE <= p_pos; and whenever
\* alloc_pages(p, 1) succeeds the address is a multiple of PAGE_SIZE.
C4_PagesSucceedWhileAvailableAligned ==
    /\ (/\ last.op = "alloc_pages"
        /\ last.a > 0
        /\ last.b = 1
        /\ last.pre.p_pos % PAGE_SIZE = 0
        /\ last.pre.b_pos + last.a * PAGE_SIZE <= last.pre.p_pos)
       => last.res = "Ok"
    /\ (last.op = "alloc_pages" /\ last.b = 1 /\ last.res = "Ok")
       => last.addr % PAGE_SIZE = 0

\* A page request that exactly fills the gap between the cursors, above a
\* byte arena in use, has been granted.
C4_Witness ==
    /\ last.op = "alloc_pages"
    /\ last.b = 1
    /\ last.res = "Ok"
    /\ last.pre.b_pos > last.pre.start
    /\ last.pre.b_pos + last.a * PAGE_SIZE = last.pre.p_pos
    /\ p_pos = last.pre.b_pos

\* C5: an alloc or alloc_pages call that returns InvalidParam or NoMemory
\* leaves start, end, b_pos, p_pos and count as they were.
C5_ErrorsLeaveState ==
    (last.op \in {"alloc", "alloc_pages"} /\ last.res \in ErrorKinds)
    => Snapshot = last.pre

\* An alloc has failed with NoMemory while allocations were outstanding.
C5_Witness ==
    /\ last.op = "alloc"
    /\ last.res = "NoMemory"
    /\ last.pre.count > 0
    /\ last.pre.b_pos > last.pre.start

\* C6: alloc returns InvalidParam when size is 0 or align is no power of two,
\* alloc_pages when num_pages is 0 or align_pow2 is no power of two (0
\* included); nothing is written, whether or not the request would fit.
C6_InvalidParamFirst ==
    (/\ last.op \in {"alloc", "alloc_pages"}
     /\ (last.a = 0 \/ ~IsPowerOfTwo(last.b)))
    => last.res = "InvalidParam" /\ Snapshot = last.pre

\* alloc_pages with alignment 0 was refused with InvalidParam in a state
\* where no page was left between the cursors.
C6_Witness ==
    /\ last.op = "alloc_pages"
    /\ last.a = 1
    /\ last.b = 0
    /\ last.res = "InvalidParam"
    /\ Initialized
    /\ last.pre.p_pos - last.pre.b_pos < PAGE_SIZE

Disjoint(x, y) == x.addr + x.size <= y.addr \/ y.addr + y.size <= x.addr

\* C2: the ranges returned by successive successful allocs, with no dealloc
\* in between, are pairwise disjoint, and each address is a multiple of the
\* alignment asked for.
C2_BytesDisjointAligned ==
    Initialized =>
        /\ \A i \in 1..Len(granted) : granted[i].addr % granted[i].align = 0
        /\ \A i \in 1..Len(granted) : \A j \in (i + 1)..Len(granted) :
               Disjoint(granted[i], granted[j])

\* C7: from a state with count = 0, k >= 1 successful allocs followed by k
\* deallocs bring used_bytes() to 0 and available_bytes() to its value
\* before the first alloc; with one dealloc fewer, used_bytes() is above 0.
C7_DrainResets ==
    Initialized =>
        /\ (run.phase = "deallocs" /\ count = 0)
           => used_bytes = 0 /\ available_bytes = run.avail0
        /\ (run.phase \in {"allocs", "deallocs"} /\ count = 1)
           => used_bytes > 0

\* C11: dealloc acts on the counter alone, whatever its arguments: with count
\* 0 it changes nothing; otherwise count drops by exactly 1 and b_pos is set
\* to start if and only if count thereby reaches 0, and is unchanged
\* otherwise; start, end and p_pos are never changed.
C11_DeallocCounterOnly ==
    last.op = "dealloc" =>
        /\ last.res = "Ok"
        /\ start = last.pre.start
        /\ end = last.pre.end
        /\ p_pos = last.pre.p_pos
        /\ last.pre.count = 0 => Snapshot = last.pre
        /\ last.pre.count > 0 => count = last.pre.count - 1
        /\ last.pre.count = 1 => b_pos = start
        /\ last.pre.count > 1 => b_pos = last.pre.b_pos

\* A dealloc with two or more allocations outstanding has left the byte
\* cursor where it was, above start.
C11_Witness ==
    /\ last.op = "dealloc"
    /\ last.pre.count > 1
    /\ count = last.pre.count - 1
    /\ b_pos = last.pre.b_pos
    /\ b_pos > start

\* What C12 says of the state right after init(S, N).
AfterInit(S, N) ==
    /\ last.res = "Ok"
    /\ start = S
    /\ end = S + N
    /\ b_pos = S
    /\ p_pos = S + N
    /\ count = 0
    /\ total_bytes = N
    /\ used_bytes = 0
    /\ available_pages = N \div PAGE_SIZE

\* C12, as claimed: init(S, N), called in any state and with any arguments,
\* leaves start = S, end = S + N, b_pos = S, p_pos = S + N, count = 0, so that
\* total_bytes() = N, used_bytes() = 0, available_pages() = N / PAGE_SIZE.
C12_InitResets ==
    last.op = "init" => AfterInit(last.a, last.b)

\* C12, amended: the same, for init(S, N) with S + N representable in the
\* machine word.
C12_InitResetsRepresentable ==
    (last.op = "init" /\ last.a + last.b <= usize_MAX)
        => AfterInit(last.a, last.b)

\* init has reset an allocator that had byte allocations outstanding and
\* pages handed out, to a different region.
C12_Witness ==
    /\ last.op = "init"
    /\ last.res = "Ok"
    /\ last.a + last.b <= usize_MAX
    /\ last.pre.count > 0
    /\ last.pre.p_pos < last.pre.end
    /\ last.pre.start # last.a
    /\ count = 0

\* C13: add_memory, with any start and size, returns success and leaves
\* start, end, b_pos, p_pos and count unchanged; the managed region is still
\* the one the last init set.
C13_AddMemoryIgnored ==
    last.op = "add_memory" =>
        /\ last.res = "Ok"
        /\ Snapshot = last.pre
        /\ Len(region) = 2 =>
               /\ start = region[1]
               /\ end = (region[1] + region[2]) % Word

\* add_memory was called on an allocator in use, with a region other than
\* the managed one.
C13_Witness ==
    /\ last.op = "add_memory"
    /\ last.res = "Ok"
    /\ Initialized
    /\ <<last.a, last.b>> # region
    /\ last.b > 0
    /\ count > 0
    /\ p_pos < end

\* The fields of the allocator over the region [0, 8192) with the byte cursor
\* at b, the page cursor at p and c allocations counted.
ScenarioState(b, p, c) ==
    [start |-> 0, end |-> 2 * PAGE_SIZE, b_pos |-> b, p_pos |-> p, count |-> c]

\* C14: over the region [0, 8192) with PAGE_SIZE = 4096, alloc_pages(1, 1)
\* on the fresh region returns 4096 and leaves used_pages() = 1 and
\* available_pages() = 1; alloc(100, 8) after it returns address 0 and leaves
\* used_bytes() = 100; a further alloc_pages(1, 1) returns NoMemory and
\* changes nothing.
C14_Scenario ==
    /\ (/\ last.op = "alloc_pages" /\ last.a = 1 /\ last.b = 1
        /\ last.pre = ScenarioState(0, 2 * PAGE_SIZE, 0))
       => /\ last.res = "Ok"
          /\ last.addr = PAGE_SIZE
          /\ used_pages = 1
          /\ available_pages = 1
    /\ (/\ last.op = "alloc" /\ last.a = 100 /\ last.b = 8
        /\ last.pre = ScenarioState(0, PAGE_SIZE, 0))
       => /\ last.res = "Ok"
          /\ last.addr = 0
          /\ used_bytes = 100
    /\ (/\ last.op = "alloc_pages" /\ last.a = 1 /\ last.b = 1
        /\ last.pre = ScenarioState(100, PAGE_SIZE, 1))
       => /\ last.res = "NoMemory"
          /\ Snapshot = last.pre

\* C15: a successful alloc_pages(n, a) returns the largest multiple A of
\* a * PAGE_SIZE that is <= old p_pos - n * PAGE_SIZE; [A, A + n * PAGE_SIZE)
\* lies inside [old b_pos, old p_pos]; p_pos becomes A; start, end, b_pos and
\* count are unchanged.
C15_PagesSuccess ==
    (Initialized /\ last.op = "alloc_pages" /\ last.res = "Ok") =>
        /\ last.addr = RoundDown(last.pre.p_pos - last.a * PAGE_SIZE,
                                 last.b * PAGE_SIZE)
        /\ last.pre.b_pos <= last.addr
        /\ last.addr + last.a * PAGE_SIZE <= last.pre.p_pos
        /\ p_pos = last.addr
        /\ start = last.pre.start
        /\ end = last.pre.end
        /\ b_pos = last.pre.b_pos
        /\ count = last.pre.count

\* C16: a successful alloc(size, align) returns the least multiple A of align
\* that is >= old b_pos; b_pos becomes A + size; count grows by exactly 1;
\* start, end and p_pos are unchanged.
C16_AllocSuccess ==
    (Initialized /\ last.op = "alloc" /\ last.res = "Ok") =>
        /\ last.addr = RoundUp(last.pre.b_pos, last.b)
        /\ b_pos = last.addr + last.a
        /\ count = last.pre.count + 1
        /\ start = last.pre.start
        /\ end = last.pre.end
        /\ p_pos = last.pre.p_pos

\* The byte range x and the page range y share no byte.
DisjointFromPages(x, y) ==
    x.addr + x.size <= y.addr \/ y.addr + y.num * PAGE_SIZE <= x.addr

\* C17: when every dealloc returns one live allocation, no live byte range
\* overlaps another live byte range or a page range returned since init.
\* The byte ranges returned since the last dealloc are all live.
C17_LiveRangesDisjoint ==
    Initialized =>
        /\ \A i \in 1..Len(granted) : \A j \in 1..Len(granted) :
               i # j => Disjoint(granted[i], granted[j])
        /\ \A i \in 1..Len(granted) : \A j \in 1..Len(pages) :
               DisjointFromPages(granted[i], pages[j])

\* C18: in every reachable state, count = 0 if and only if b_pos = start.
C18_CountZeroIffAtStart ==
    ~panicked => (count = 0 <=> b_pos = start)

\* C19: in every reachable state none of p_pos - start, b_pos - start,
\* p_pos - b_pos, end - b_pos, end - p_pos and total_pages() - used_pages()
\* underflows, used_bytes() + available_bytes() = total_bytes(), and
\* used_pages() <= total_pages().
C19_QueriesConsistent ==
    (~panicked /\ (Len(region) = 0 \/ Initialized)) =>
        /\ start <= p_pos
        /\ start <= b_pos
        /\ b_pos <= p_pos
        /\ b_pos <= end
        /\ p_pos <= end
        /\ used_pages <= total_pages
        /\ used_bytes + available_bytes = total_bytes

====
